---- MODULE Spec2Model ----
(***************************************************************************)
(* Model of src/src/filesystem.ts: one FileSystem volume (node tree, block *)
(* store, first-fit allocator) and its operations.                         *)
(*                                                                         *)
(* Strings are sequences of one-character strings.  JavaScript objects     *)
(* (FileNode, DirectoryNode) live in `heap`, the sequence of the objects'   *)
(* fields; an object's identity is its index.  A Record<string, FSNode> is *)
(* the sequence of its entries in insertion order (the order               *)
(* Object.entries reports).  The meta fields (timestamps, owner, mode) are *)
(* not modelled.                                                           *)
(***************************************************************************)
EXTENDS Integers, Sequences, FiniteSets, TLC

\* ---------------------------------------------------------------- bounds
TotalBlocks == 2      \* opts.totalBlocks of the volume
BlockSize == 1        \* opts.blockSize of the volume
MaxLen == 2           \* longest content handed to createFile/writeFile
MaxExtra == 1         \* longest content handed to appendFile
MaxDepth == 2         \* most segments in a path handed to an operation
MaxNodes == 3         \* most nodes reachable from the root (root included)
NumDisks == 1         \* volumes made by createDisk, besides the manager's root volume
MaxVfsNodes == 2      \* most nodes per volume under the manager (root included)
MaxVfsLen == 1        \* longest content handed to the manager's createFile/writeFile
CopyBlocks == 3       \* opts.totalBlocks of the volume copies are made on
MaxCopyNodes == 4     \* most nodes reachable from the root of that volume

Names == {"a", "b"}
Chars == <<"x", "y">>

BlockIds == 0 .. (TotalBlocks - 1)
NoId == 0             \* no object: undefined

NoBlock == -1         \* no block: null

\* ---------------------------------------------------------------- strings
Content(n) == [i \in 1 .. n |-> Chars[((i - 1) % Len(Chars)) + 1]]
Contents == {Content(n) : n \in 0 .. MaxLen}
Extras == {Content(n) : n \in 0 .. MaxExtra}

\* String.prototype.slice(from, to) with 0-based from, exclusive to
slice(s, from, to) ==
  LET hi == IF to > Len(s) THEN Len(s) ELSE to
  IN IF from >= hi THEN <<>> ELSE [i \in 1 .. (hi - from) |-> s[from + i]]

\* path strings: "" is <<>>, "/" is <<"/">>, "/a/b" is <<"/","a","/","b">>
RECURSIVE pathOf(_)
pathOf(parts) ==
  IF parts = <<>> THEN <<>> ELSE <<"/", Head(parts)>> \o pathOf(Tail(parts))

RECURSIVE PartsUpTo(_)
PartsUpTo(d) ==
  IF d = 0 THEN {<<>>}
  ELSE PartsUpTo(d - 1) \cup {Append(q, n) : q \in {r \in PartsUpTo(d - 1) : Len(r) = d - 1}, n \in Names}

str(parts) == IF parts = <<>> THEN <<"/">> ELSE pathOf(parts)
Paths == {str(q) : q \in PartsUpTo(MaxDepth)}
EmptyString == <<>>

\* p.split("/").filter(Boolean)
RECURSIVE splitParts(_)
splitParts(p) ==
  IF p = <<>> THEN <<>>
  ELSE IF Head(p) = "/" THEN splitParts(Tail(p))
  ELSE <<Head(p)>> \o splitParts(Tail(p))

normalizePath(p) ==
  IF p = <<>> THEN [err |-> "ThrownString", path |-> <<>>]
  ELSE [err |-> "ok", path |-> IF Head(p) = "/" THEN p ELSE <<"/">> \o p]

\* ---------------------------------------------------------------- nodes
createEmptyDir(name) ==
  [type |-> "directory", name |-> name, children |-> <<>>, blocks |-> <<>>, size |-> 0]

\* children[name]
Lookup(children, name) ==
  IF \E i \in 1 .. Len(children) : children[i].name = name
  THEN children[CHOOSE i \in 1 .. Len(children) : children[i].name = name].id
  ELSE NoId

\* children[name] = id : an existing key keeps its place, a new key goes last
SetChild(children, name, id) ==
  IF Lookup(children, name) # NoId
  THEN [i \in 1 .. Len(children) |->
          IF children[i].name = name THEN [name |-> name, id |-> id] ELSE children[i]]
  ELSE Append(children, [name |-> name, id |-> id])

\* delete children[name]
DelChild(children, name) == SelectSeq(children, LAMBDA e : e.name # name)

\* the identity of the next object created
NewId(heap) == Len(heap) + 1

\* ---------------------------------------------------------------- state
\* freeBlockMap, blocks, heap, root: the fields and objects of one FileSystem,
\* which is also the root volume `main` of the VFSManager; disks: the volumes
\* made by createDisk; mounts: VFSManager.mounts; last: the latest call recorded
VARIABLES freeBlockMap, blocks, heap, root, last, mounts, disks

vars == <<freeBlockMap, blocks, heap, root, last, mounts, disks>>

Vol == [freeBlockMap |-> freeBlockMap, blocks |-> blocks, heap |-> heap, root |-> root]

NewVolume ==
  [freeBlockMap |-> [i \in BlockIds |-> 0],
   blocks |-> [i \in BlockIds |-> <<>>],
   heap |-> <<createEmptyDir("/")>>,
   root |-> 1]

\* new FileSystem({totalBlocks: n})
NewVolumeOf(n) ==
  [freeBlockMap |-> [i \in 0 .. (n - 1) |-> 0],
   blocks |-> [i \in 0 .. (n - 1) |-> <<>>],
   heap |-> <<createEmptyDir("/")>>,
   root |-> 1]

\* ---------------------------------------------------------------- block allocation
\* this.totalBlocks: the length the two arrays were made with
totalBlocks(fs) == Cardinality(DOMAIN fs.freeBlockMap)
blockIds(fs) == 0 .. (totalBlocks(fs) - 1)

\* allocateBlock taking the largest free index
allocateBlock_LastFit(fs) ==
  IF \A i \in blockIds(fs) : fs.freeBlockMap[i] # 0 THEN [fs |-> fs, idx |-> NoBlock]
  ELSE LET idx == CHOOSE i \in blockIds(fs) :
                    fs.freeBlockMap[i] = 0 /\ \A j \in blockIds(fs) : j > i => fs.freeBlockMap[j] # 0
       IN [fs |-> [fs EXCEPT !.freeBlockMap[idx] = 1, !.blocks[idx] = <<>>], idx |-> idx]

allocateBlock(fs) ==
  IF \A i \in blockIds(fs) : fs.freeBlockMap[i] # 0 THEN [fs |-> fs, idx |-> NoBlock]
  ELSE LET idx == CHOOSE i \in blockIds(fs) :
                    fs.freeBlockMap[i] = 0 /\ \A j \in blockIds(fs) : j < i => fs.freeBlockMap[j] # 0
       IN [fs |-> [fs EXCEPT !.freeBlockMap[idx] = 1, !.blocks[idx] = <<>>], idx |-> idx]

\* freeBlock counting the flag down instead of clearing it
freeBlock_CountDown(fs, idx) ==
  IF idx < 0 \/ idx >= totalBlocks(fs) THEN fs
  ELSE [fs EXCEPT !.freeBlockMap[idx] = @ - 1, !.blocks[idx] = <<>>]

freeBlock(fs, idx) ==
  IF idx < 0 \/ idx >= totalBlocks(fs) THEN fs
  ELSE [fs EXCEPT !.freeBlockMap[idx] = 0, !.blocks[idx] = <<>>]

RECURSIVE freeBlocks(_, _)
freeBlocks(fs, bs) ==
  IF bs = <<>> THEN fs ELSE freeBlocks(freeBlock(fs, Head(bs)), Tail(bs))

RECURSIVE SumFree(_, _)
SumFree(fbm, n) == IF n = 0 THEN 0 ELSE SumFree(fbm, n - 1) + (IF fbm[n - 1] = 0 THEN 1 ELSE 0)
getFreeBlockCount(fs) == SumFree(fs.freeBlockMap, totalBlocks(fs))

\* ---------------------------------------------------------------- path resolution
\* resolveParent answering (root, "/") for the root path
resolveParent_RootOwnParent(fs, p) ==
  LET n == normalizePath(p)
      parts == splitParts(n.path)
      walk[i \in 0 .. Len(parts)] ==
        IF i = 0 THEN fs.root
        ELSE IF walk[i - 1] = NoId THEN NoId
        ELSE LET child == Lookup(fs.heap[walk[i - 1]].children, parts[i])
             IN IF child = NoId \/ fs.heap[child].type # "directory" THEN NoId ELSE child
  IN IF n.err # "ok" THEN [err |-> n.err, parent |-> NoId, name |-> ""]
     ELSE IF Len(parts) = 0 THEN [err |-> "ok", parent |-> fs.root, name |-> "/"]
     ELSE IF walk[Len(parts) - 1] = NoId THEN [err |-> "NotFound", parent |-> NoId, name |-> ""]
     ELSE [err |-> "ok", parent |-> walk[Len(parts) - 1], name |-> parts[Len(parts)]]

resolveParent(fs, p) ==
  LET n == normalizePath(p)
      parts == splitParts(n.path)
      walk[i \in 0 .. Len(parts)] ==
        \* directory reached after i segments, or NoId once a segment failed
        IF i = 0 THEN fs.root
        ELSE IF walk[i - 1] = NoId THEN NoId
        ELSE LET child == Lookup(fs.heap[walk[i - 1]].children, parts[i])
             IN IF child = NoId \/ fs.heap[child].type # "directory" THEN NoId ELSE child
  IN IF n.err # "ok" THEN [err |-> n.err, parent |-> NoId, name |-> ""]
     ELSE IF Len(parts) = 0 THEN [err |-> "InvalidPath", parent |-> NoId, name |-> ""]
     ELSE IF walk[Len(parts) - 1] = NoId THEN [err |-> "NotFound", parent |-> NoId, name |-> ""]
     ELSE [err |-> "ok", parent |-> walk[Len(parts) - 1], name |-> parts[Len(parts)]]

RECURSIVE getNodeFrom(_, _, _)
getNodeFrom(fs, current, parts) ==
  IF parts = <<>> THEN [err |-> "ok", id |-> current]
  ELSE IF fs.heap[current].type # "directory" THEN [err |-> "NotADirectory", id |-> NoId]
  ELSE LET child == Lookup(fs.heap[current].children, Head(parts))
       IN IF child = NoId THEN [err |-> "NotFound", id |-> NoId]
          ELSE getNodeFrom(fs, child, Tail(parts))

getNode(fs, p) ==
  LET n == normalizePath(p)
  IN IF n.err # "ok" THEN [err |-> n.err, id |-> NoId]
     ELSE getNodeFrom(fs, fs.root, splitParts(n.path))

exists(fs, p) == getNode(fs, p).err = "ok"

\* ---------------------------------------------------------------- garbage and identity
\* objects reachable from a list of objects, parents before children, children
\* in entry order; fuel bounds the walk
RECURSIVE preorderList(_, _, _)
preorderList(h, ids, fuel) ==
  IF ids = <<>> \/ fuel = 0 THEN <<>>
  ELSE LET ch == h[Head(ids)].children
           kids == [i \in 1 .. Len(ch) |-> ch[i].id]
       IN <<Head(ids)>> \o preorderList(h, kids \o Tail(ids), fuel - 1)

Reachable(fs) == preorderList(fs.heap, <<fs.root>>, Len(fs.heap))

\* Objects no reference leads to are reclaimed, and the remaining identities
\* are renamed 1, 2, 3, ... in the order of the walk from the root: object
\* identity is observable only through references.
Collect(fs) ==
  LET order == Reachable(fs)
      rank(id) == CHOOSE i \in 1 .. Len(order) : order[i] = id
      moved(n) == [n EXCEPT !.children =
                     [i \in 1 .. Len(n.children) |->
                        [name |-> n.children[i].name, id |-> rank(n.children[i].id)]]]
  IN [fs EXCEPT !.heap = [i \in 1 .. Len(order) |-> moved(fs.heap[order[i]])],
                !.root = 1]

\* ---------------------------------------------------------------- operations
\* an operation's outcome: the volume as the call left it, the error thrown
\* ("ok" when it returned) and, for move and copy, the node returned
Fail(fs, e) == [fs |-> fs, err |-> e, ret |-> NoId]
Ok(fs) == [fs |-> fs, err |-> "ok", ret |-> NoId]

createDirectory(fs, p) ==
  LET n == normalizePath(p)
      rp == resolveParent(fs, n.path)
      id == NewId(fs.heap)
  IN IF n.err # "ok" THEN Fail(fs, n.err)
     ELSE IF n.path = <<"/">> THEN Fail(fs, "AlreadyExists")
     ELSE IF rp.err # "ok" THEN Fail(fs, rp.err)
     ELSE IF Lookup(fs.heap[rp.parent].children, rp.name) # NoId THEN Fail(fs, "AlreadyExists")
     ELSE Ok([fs EXCEPT !.heap = Append(@, createEmptyDir(rp.name)),
                        !.heap[rp.parent].children = SetChild(@, rp.name, id)])

\* createFileNodeLoop without its rollback
RECURSIVE createFileNodeLoop_NoRollback(_, _, _, _)
createFileNodeLoop_NoRollback(fs, content, cursor, bl) ==
  IF cursor >= Len(content) THEN [fs |-> fs, err |-> "ok", blocks |-> bl]
  ELSE LET a == allocateBlock(fs)
       IN IF a.idx = NoBlock
          THEN [fs |-> a.fs, err |-> "DiskFull", blocks |-> <<>>]
          ELSE createFileNodeLoop_NoRollback(
                 [a.fs EXCEPT !.blocks[a.idx] = slice(content, cursor, cursor + BlockSize)],
                 content, cursor + BlockSize, Append(bl, a.idx))

\* the allocation loop of createFileNode
RECURSIVE createFileNodeLoop(_, _, _, _)
createFileNodeLoop(fs, content, cursor, bl) ==
  IF cursor >= Len(content) THEN [fs |-> fs, err |-> "ok", blocks |-> bl]
  ELSE LET a == allocateBlock(fs)
       IN IF a.idx = NoBlock
          THEN [fs |-> freeBlocks(a.fs, bl), err |-> "DiskFull", blocks |-> <<>>]
          ELSE createFileNodeLoop(
                 [a.fs EXCEPT !.blocks[a.idx] = slice(content, cursor, cursor + BlockSize)],
                 content, cursor + BlockSize, Append(bl, a.idx))

createFileNode(fs, name, content) ==
  LET r == createFileNodeLoop(fs, content, 0, <<>>)
      id == NewId(r.fs.heap)
  IN IF r.err # "ok" THEN [fs |-> r.fs, err |-> r.err, id |-> NoId]
     ELSE [fs |-> [r.fs EXCEPT !.heap = Append(@,
                     [type |-> "file", name |-> name, children |-> <<>>,
                      blocks |-> r.blocks, size |-> Len(content)])],
           err |-> "ok", id |-> id]

createFile(fs, p, content) ==
  LET n == normalizePath(p)
      rp == resolveParent(fs, n.path)
      c == createFileNode(fs, rp.name, content)
  IN IF n.err # "ok" THEN Fail(fs, n.err)
     ELSE IF rp.err # "ok" THEN Fail(fs, rp.err)
     ELSE IF Lookup(fs.heap[rp.parent].children, rp.name) # NoId THEN Fail(fs, "AlreadyExists")
     ELSE IF c.err # "ok" THEN Fail(c.fs, c.err)
     ELSE Ok([c.fs EXCEPT !.heap[rp.parent].children = SetChild(@, rp.name, c.id)])

\* node.blocks.map((b) => this.blocks[b] ?? "").join("")
RECURSIVE joinBlocks(_, _)
joinBlocks(fs, bl) ==
  IF bl = <<>> THEN <<>>
  ELSE (IF Head(bl) \in blockIds(fs) THEN fs.blocks[Head(bl)] ELSE <<>>) \o joinBlocks(fs, Tail(bl))

readFile(fs, p) ==
  LET g == getNode(fs, p)
  IN IF g.err # "ok" THEN [err |-> g.err, val |-> <<>>]
     ELSE IF fs.heap[g.id].type # "file" THEN [err |-> "NotAFile", val |-> <<>>]
     ELSE [err |-> "ok", val |-> joinBlocks(fs, fs.heap[g.id].blocks)]

\* writeFileLoop taking content.slice(cursor, bs) for each chunk
RECURSIVE writeFileLoop_SliceToBlockSize(_, _, _, _)
writeFileLoop_SliceToBlockSize(fs, content, cursor, newBlocks) ==
  IF cursor >= Len(content) THEN [fs |-> fs, err |-> "ok", blocks |-> newBlocks]
  ELSE LET a == allocateBlock(fs)
       IN IF a.idx = NoBlock
          THEN [fs |-> freeBlocks(a.fs, newBlocks), err |-> "DiskFull", blocks |-> <<>>]
          ELSE writeFileLoop_SliceToBlockSize(
                 [a.fs EXCEPT !.blocks[a.idx] = slice(content, cursor, BlockSize)],
                 content, cursor + BlockSize, Append(newBlocks, a.idx))

\* the allocation loop of writeFile
RECURSIVE writeFileLoop(_, _, _, _)
writeFileLoop(fs, content, cursor, newBlocks) ==
  IF cursor >= Len(content) THEN [fs |-> fs, err |-> "ok", blocks |-> newBlocks]
  ELSE LET a == allocateBlock(fs)
       IN IF a.idx = NoBlock
          THEN [fs |-> freeBlocks(a.fs, newBlocks), err |-> "DiskFull", blocks |-> <<>>]
          ELSE writeFileLoop(
                 [a.fs EXCEPT !.blocks[a.idx] = slice(content, cursor, cursor + BlockSize)],
                 content, cursor + BlockSize, Append(newBlocks, a.idx))

writeFile(fs, p, content) ==
  LET n == normalizePath(p)
      g == getNode(fs, n.path)
      r == writeFileLoop(freeBlocks(fs, fs.heap[g.id].blocks), content, 0, <<>>)
  IN IF n.err # "ok" THEN Fail(fs, n.err)
     ELSE IF g.err # "ok" THEN Fail(fs, g.err)
     ELSE IF fs.heap[g.id].type # "file" THEN Fail(fs, "NotAFile")
     ELSE IF r.err # "ok" THEN Fail(r.fs, r.err)
     ELSE Ok([r.fs EXCEPT !.heap[g.id].blocks = r.blocks, !.heap[g.id].size = Len(content)])

appendFile(fs, p, extra) ==
  LET g == getNode(fs, p)
      current == readFile(fs, p)
  IN IF g.err # "ok" THEN Fail(fs, g.err)
     ELSE IF fs.heap[g.id].type # "file" THEN Fail(fs, "NotAFile")
     ELSE writeFile(fs, p, current.val \o extra)

\* deleteRec that frees a file's blocks and does not descend into a directory
deleteRec_NoDescent(fs, ids) ==
  IF ids = <<>> THEN fs
  ELSE IF fs.heap[Head(ids)].type = "file" THEN freeBlocks(fs, fs.heap[Head(ids)].blocks)
  ELSE fs

\* deleteRec: free the blocks of every file under the objects listed
RECURSIVE deleteRec(_, _)
deleteRec(fs, ids) ==
  IF ids = <<>> THEN fs
  ELSE LET n == fs.heap[Head(ids)]
       IN deleteRec(IF n.type = "file" THEN freeBlocks(fs, n.blocks) ELSE fs, Tail(ids))

deleteNode(fs, p) ==
  LET n == normalizePath(p)
      rp == resolveParent(fs, n.path)
      node == Lookup(fs.heap[rp.parent].children, rp.name)
      freed == deleteRec(fs, preorderList(fs.heap, <<node>>, Len(fs.heap)))
  IN IF n.err # "ok" THEN Fail(fs, n.err)
     ELSE IF n.path = <<"/">> THEN Fail(fs, "InvalidPath")
     ELSE IF rp.err # "ok" THEN Fail(fs, rp.err)
     ELSE IF node = NoId THEN Fail(fs, "NotFound")
     ELSE Ok([freed EXCEPT !.heap[rp.parent].children = DelChild(@, rp.name)])

rename(fs, p, newName) ==
  LET n == normalizePath(p)
      rp == resolveParent(fs, n.path)
      node == Lookup(fs.heap[rp.parent].children, rp.name)
  IN IF n.err # "ok" THEN Fail(fs, n.err)
     ELSE IF rp.err # "ok" THEN Fail(fs, rp.err)
     ELSE IF node = NoId THEN Fail(fs, "NotFound")
     ELSE IF Lookup(fs.heap[rp.parent].children, newName) # NoId THEN Fail(fs, "AlreadyExists")
     ELSE Ok([fs EXCEPT !.heap[node].name = newName,
                        !.heap[rp.parent].children = SetChild(DelChild(@, rp.name), newName, node)])

move(fs, src, dst) ==
  LET sn == normalizePath(src)
      dn == normalizePath(dst)
      sp == resolveParent(fs, sn.path)
      node == Lookup(fs.heap[sp.parent].children, sp.name)
      dnode == getNode(fs, dn.path)
      res == resolveParent(fs, dn.path)
      \* an Error thrown inside the try block is caught by the catch block
      dest == IF dnode.err = "ok" /\ fs.heap[dnode.id].type = "directory"
              THEN [err |-> "ok", parent |-> dnode.id, name |-> fs.heap[node].name]
              ELSE res
      detached == [fs EXCEPT !.heap[sp.parent].children = DelChild(@, sp.name)]
      named == [detached EXCEPT !.heap[node].name = dest.name]
  IN IF sn.err # "ok" THEN Fail(fs, sn.err)
     ELSE IF dn.err # "ok" THEN Fail(fs, dn.err)
     ELSE IF sp.err # "ok" THEN Fail(fs, sp.err)
     ELSE IF node = NoId THEN Fail(fs, "NotFound")
     ELSE IF dest.err # "ok" THEN Fail(fs, dest.err)
     ELSE IF Lookup(fs.heap[dest.parent].children, dest.name) # NoId THEN Fail(fs, "AlreadyExists")
     ELSE [fs |-> [named EXCEPT !.heap[dest.parent].children = SetChild(@, dest.name, node)],
           err |-> "ok", ret |-> node]

\* cloneRec of copy; cloneChildren is its loop over Object.entries(n.children)
RECURSIVE cloneRec(_, _, _)
RECURSIVE cloneChildren(_, _, _, _)
cloneRec(fs, n, destName) ==
  IF fs.heap[n].type = "file"
  THEN createFileNode(fs, destName, joinBlocks(fs, fs.heap[n].blocks))
  ELSE LET dir == NewId(fs.heap)
       IN cloneChildren([fs EXCEPT !.heap = Append(@, createEmptyDir(destName))],
                        dir, fs.heap[n].children, destName)

cloneChildren(fs, dir, entries, destName) ==
  IF entries = <<>> THEN [fs |-> fs, err |-> "ok", id |-> dir]
  ELSE LET childClone == cloneRec(fs, Head(entries).id, destName)
       IN IF childClone.err # "ok" THEN [fs |-> childClone.fs, err |-> childClone.err, id |-> NoId]
          ELSE cloneChildren(
                 [childClone.fs EXCEPT !.heap[dir].children =
                    SetChild(@, childClone.fs.heap[childClone.id].name, childClone.id)],
                 dir, Tail(entries), destName)

copy(fs, src, dst) ==
  LET g == getNode(fs, src)
      dn == normalizePath(dst)
      dnode == getNode(fs, dn.path)
      res == resolveParent(fs, dn.path)
      \* an Error thrown inside the try block is caught by the catch block
      dest == IF dnode.err = "ok" /\ fs.heap[dnode.id].type = "directory"
              THEN [err |-> "ok", parent |-> dnode.id, name |-> fs.heap[g.id].name]
              ELSE res
      copied == cloneRec(fs, g.id, dest.name)
  IN IF g.err # "ok" THEN Fail(fs, g.err)
     ELSE IF dn.err # "ok" THEN Fail(fs, dn.err)
     ELSE IF dest.err # "ok" THEN Fail(fs, dest.err)
     ELSE IF Lookup(fs.heap[dest.parent].children, dest.name) # NoId THEN Fail(fs, "AlreadyExists")
     ELSE IF copied.err # "ok" THEN Fail(copied.fs, copied.err)
     ELSE [fs |-> [copied.fs EXCEPT !.heap[dest.parent].children = SetChild(@, dest.name, copied.id)],
           err |-> "ok", ret |-> copied.id]

format(fs, zeroBlocks) ==
  LET id == NewId(fs.heap)
  IN Ok([fs EXCEPT !.freeBlockMap = [i \in blockIds(fs) |-> 0],
                   !.blocks = IF zeroBlocks THEN [i \in blockIds(fs) |-> <<>>] ELSE @,
                   !.heap = Append(@, createEmptyDir("/")),
                   !.root = id])

\* export(): the two arrays are copied, the root object is shared
export(fs) == [freeBlockMap |-> fs.freeBlockMap, blocks |-> fs.blocks, root |-> fs.root]

\* importDump(dump) with a dump of this volume (same totalBlocks, blockSize)
importDump(fs, dump) ==
  [fs EXCEPT !.freeBlockMap = dump.freeBlockMap, !.blocks = dump.blocks, !.root = dump.root]

\* ---------------------------------------------------------------- VFSManager
MainVol == 0          \* the volume `main` the constructor mounts at "/"
DiskIds == 1 .. NumDisks
VolIds == {MainVol} \cup DiskIds

\* new VFSManager(): the root volume mounted at "/"
NewManager == <<[mountPoint |-> <<"/">>, fs |-> MainVol]>>

\* Array.prototype.sort by mountPoint.length descending; the sort is stable
RECURSIVE sortMounts(_)
sortMounts(ms) ==
  IF ms = <<>> THEN <<>>
  ELSE LET longest == CHOOSE n \in {Len(ms[i].mountPoint) : i \in 1 .. Len(ms)} :
                        \A i \in 1 .. Len(ms) : Len(ms[i].mountPoint) <= n
       IN SelectSeq(ms, LAMBDA m : Len(m.mountPoint) = longest)
            \o sortMounts(SelectSeq(ms, LAMBDA m : Len(m.mountPoint) # longest))

\* mount that does not look for the mount point in the table
mount_NoDuplicateCheck(ms, fsys, mountPoint) ==
  LET n == normalizePath(mountPoint)
  IN IF n.err # "ok" THEN [mounts |-> ms, err |-> n.err]
     ELSE [mounts |-> sortMounts(Append(ms, [mountPoint |-> n.path, fs |-> fsys])), err |-> "ok"]

mount(ms, fsys, mountPoint) ==
  LET n == normalizePath(mountPoint)
  IN IF n.err # "ok" THEN [mounts |-> ms, err |-> n.err]
     ELSE IF \E i \in 1 .. Len(ms) : ms[i].mountPoint = n.path
     THEN [mounts |-> ms, err |-> "AlreadyMounted"]
     ELSE [mounts |-> sortMounts(Append(ms, [mountPoint |-> n.path, fs |-> fsys])), err |-> "ok"]

unmount(ms, mountPoint) ==
  LET n == normalizePath(mountPoint)
      hits == {i \in 1 .. Len(ms) : ms[i].mountPoint = n.path}
      idx == CHOOSE i \in hits : \A j \in hits : i <= j
  IN IF n.err # "ok" THEN [mounts |-> ms, err |-> n.err]
     ELSE IF hits = {} THEN [mounts |-> ms, err |-> "NotFound"]
     ELSE IF ms[idx].mountPoint = <<"/">> THEN [mounts |-> ms, err |-> "CannotUnmountRoot"]
     ELSE [mounts |-> [i \in 1 .. (Len(ms) - 1) |-> IF i < idx THEN ms[i] ELSE ms[i + 1]],
           err |-> "ok"]

\* String.prototype.startsWith
startsWith(s, prefix) ==
  Len(prefix) <= Len(s) /\ \A i \in 1 .. Len(prefix) : s[i] = prefix[i]

\* the for loop of resolve from entry i on: the first entry other than "/"
\* that matches, or the entry at "/"
RECURSIVE resolveFrom(_, _, _)
resolveFrom(ms, p, i) ==
  IF i > Len(ms)
  THEN LET rootMount == ms[CHOOSE k \in 1 .. Len(ms) :
                             /\ ms[k].mountPoint = <<"/">>
                             /\ \A j \in 1 .. (k - 1) : ms[j].mountPoint # <<"/">>]
       IN [err |-> "ok", fs |-> rootMount.fs, innerPath |-> p, mountPoint |-> <<"/">>]
  ELSE LET m == ms[i]
       IN IF m.mountPoint = <<"/">> THEN resolveFrom(ms, p, i + 1)
          ELSE IF p = m.mountPoint \/ startsWith(p, m.mountPoint \o <<"/">>)
          THEN LET rest == slice(p, Len(m.mountPoint), Len(p))
                   inner == IF rest = <<>> THEN <<"/">> ELSE rest
               IN [err |-> "ok", fs |-> m.fs, innerPath |-> normalizePath(inner).path,
                   mountPoint |-> m.mountPoint]
          ELSE resolveFrom(ms, p, i + 1)

\* resolve that takes the first entry whose mount point is a prefix of the path
RECURSIVE resolve_BarePrefixFrom(_, _, _)
resolve_BarePrefixFrom(ms, p, i) ==
  IF i > Len(ms)
  THEN [err |-> "ok", fs |-> MainVol, innerPath |-> p, mountPoint |-> <<"/">>]
  ELSE LET m == ms[i]
       IN IF m.mountPoint = <<"/">> THEN resolve_BarePrefixFrom(ms, p, i + 1)
          ELSE IF startsWith(p, m.mountPoint)
          THEN LET rest == slice(p, Len(m.mountPoint), Len(p))
                   inner == IF rest = <<>> THEN <<"/">> ELSE rest
               IN [err |-> "ok", fs |-> m.fs, innerPath |-> normalizePath(inner).path,
                   mountPoint |-> m.mountPoint]
          ELSE resolve_BarePrefixFrom(ms, p, i + 1)

resolve_BarePrefix(ms, vfsPath) ==
  LET n == normalizePath(vfsPath)
  IN IF n.err # "ok" THEN [err |-> n.err, fs |-> MainVol, innerPath |-> <<>>, mountPoint |-> <<>>]
     ELSE resolve_BarePrefixFrom(ms, n.path, 1)

resolve(ms, vfsPath) ==
  LET n == normalizePath(vfsPath)
  IN IF n.err # "ok" THEN [err |-> n.err, fs |-> MainVol, innerPath |-> <<>>, mountPoint |-> <<>>]
     ELSE resolveFrom(ms, n.path, 1)

\* the volumes a manager call can reach
Volumes == [v \in VolIds |-> IF v = MainVol THEN Vol ELSE disks[v]]

\* the convenience wrappers: resolve once, then the call on the volume resolved
VFS_createDirectory(vols, ms, vfsPath) ==
  LET r == resolve(ms, vfsPath)
      o == createDirectory(vols[r.fs], r.innerPath)
  IN IF r.err # "ok" THEN [vols |-> vols, err |-> r.err]
     ELSE [vols |-> [vols EXCEPT ![r.fs] = o.fs], err |-> o.err]

\* VFSManager.createFile handing the unified path to the root volume
VFS_createFile_OnMain(vols, ms, vfsPath, content) ==
  LET o == createFile(vols[MainVol], vfsPath, content)
  IN [vols |-> [vols EXCEPT ![MainVol] = o.fs], err |-> o.err]

VFS_createFile(vols, ms, vfsPath, content) ==
  LET r == resolve(ms, vfsPath)
      o == createFile(vols[r.fs], r.innerPath, content)
  IN IF r.err # "ok" THEN [vols |-> vols, err |-> r.err]
     ELSE [vols |-> [vols EXCEPT ![r.fs] = o.fs], err |-> o.err]

VFS_writeFile(vols, ms, vfsPath, content) ==
  LET r == resolve(ms, vfsPath)
      o == writeFile(vols[r.fs], r.innerPath, content)
  IN IF r.err # "ok" THEN [vols |-> vols, err |-> r.err]
     ELSE [vols |-> [vols EXCEPT ![r.fs] = o.fs], err |-> o.err]

VFS_delete(vols, ms, vfsPath) ==
  LET r == resolve(ms, vfsPath)
      o == deleteNode(vols[r.fs], r.innerPath)
  IN IF r.err # "ok" THEN [vols |-> vols, err |-> r.err]
     ELSE [vols |-> [vols EXCEPT ![r.fs] = o.fs], err |-> o.err]

VFS_readFile(vols, ms, vfsPath) ==
  LET r == resolve(ms, vfsPath)
  IN IF r.err # "ok" THEN [err |-> r.err, val |-> <<>>] ELSE readFile(vols[r.fs], r.innerPath)

\* VFSManager.move without the comparison of the two volumes
VFS_move_NoVolumeCheck(vols, ms, srcVfs, dstVfs) ==
  LET rsrc == resolve(ms, srcVfs)
      rdst == resolve(ms, dstVfs)
      o == move(vols[rsrc.fs], rsrc.innerPath, rdst.innerPath)
  IN IF rsrc.err # "ok" THEN [vols |-> vols, err |-> rsrc.err]
     ELSE IF rdst.err # "ok" THEN [vols |-> vols, err |-> rdst.err]
     ELSE [vols |-> [vols EXCEPT ![rsrc.fs] = o.fs], err |-> o.err]

VFS_move(vols, ms, srcVfs, dstVfs) ==
  LET rsrc == resolve(ms, srcVfs)
      rdst == resolve(ms, dstVfs)
      o == move(vols[rsrc.fs], rsrc.innerPath, rdst.innerPath)
  IN IF rsrc.err # "ok" THEN [vols |-> vols, err |-> rsrc.err]
     ELSE IF rdst.err # "ok" THEN [vols |-> vols, err |-> rdst.err]
     ELSE IF rsrc.fs # rdst.fs THEN [vols |-> vols, err |-> "CrossVolumeUnsupported"]
     ELSE [vols |-> [vols EXCEPT ![rsrc.fs] = o.fs], err |-> o.err]

VFS_copy(vols, ms, srcVfs, dstVfs) ==
  LET rsrc == resolve(ms, srcVfs)
      rdst == resolve(ms, dstVfs)
      o == copy(vols[rsrc.fs], rsrc.innerPath, rdst.innerPath)
  IN IF rsrc.err # "ok" THEN [vols |-> vols, err |-> rsrc.err]
     ELSE IF rdst.err # "ok" THEN [vols |-> vols, err |-> rdst.err]
     ELSE IF rsrc.fs # rdst.fs THEN [vols |-> vols, err |-> "CrossVolumeUnsupported"]
     ELSE [vols |-> [vols EXCEPT ![rsrc.fs] = o.fs], err |-> o.err]

\* ---------------------------------------------------------------- actions
Init ==
  /\ freeBlockMap = NewVolume.freeBlockMap
  /\ blocks = NewVolume.blocks
  /\ heap = NewVolume.heap
  /\ root = NewVolume.root
  /\ last = [op |-> "new", err |-> "ok", freeBefore |-> TotalBlocks]
  /\ mounts = NewManager
  /\ disks = [d \in DiskIds |-> NewVolume]

\* The call returns or throws: the volume takes the state the call left, and
\* `last` keeps the call's name, what it reported and getFreeBlockCount() as
\* it was when the call began.  A call rejected with any error other than
\* DiskFull leaves `last` as it was.
Recorded(err) == err \in {"ok", "DiskFull"}

Return(op, r) ==
  LET res == r
      c == IF res.fs = Vol THEN res.fs ELSE Collect(res.fs)
  IN /\ Len(Reachable(res.fs)) <= MaxNodes
     /\ freeBlockMap' = c.freeBlockMap
     /\ blocks' = c.blocks
     /\ heap' = c.heap
     /\ root' = c.root
     /\ last' = IF Recorded(res.err)
                  THEN [op |-> op, err |-> res.err, freeBefore |-> getFreeBlockCount(Vol)]
                  ELSE last
     /\ UNCHANGED <<mounts, disks>>

CreateDirectoryAt(p) == Return("createDirectory", createDirectory(Vol, p))
CreateFileAt(p, c) == Return("createFile", createFile(Vol, p, c))
WriteFileAt(p, c) == Return("writeFile", writeFile(Vol, p, c))
AppendFileAt(p, c) == Return("appendFile", appendFile(Vol, p, c))
DeleteNodeAt(p) == Return("deleteNode", deleteNode(Vol, p))
RenameAt(p, n) == Return("rename", rename(Vol, p, n))
MoveAt(s, d) == Return("move", move(Vol, s, d))
CopyAt(s, d) == Return("copy", copy(Vol, s, d))
FormatWith(z) == Return("format", format(Vol, z))

CreateDirectory == \E p \in Paths : CreateDirectoryAt(p)
CreateFile == \E p \in Paths, c \in Contents : CreateFileAt(p, c)
WriteFile == \E p \in Paths, c \in Contents : WriteFileAt(p, c)
AppendFile == \E p \in Paths, c \in Extras : AppendFileAt(p, c)
DeleteNode == \E p \in Paths : DeleteNodeAt(p)
Rename == \E p \in Paths, n \in Names : RenameAt(p, n)
Move == \E s \in Paths, d \in Paths : MoveAt(s, d)
Copy == \E s \in Paths, d \in Paths : CopyAt(s, d)
Format == \E z \in BOOLEAN : FormatWith(z)

Next ==
  \/ CreateDirectory
  \/ CreateFile
  \/ WriteFile
  \/ AppendFile
  \/ DeleteNode
  \/ Rename
  \/ Move
  \/ Copy
  \/ Format

Spec == Init /\ [][Next]_vars

\* ---------------------------------------------------------------- manager actions
\* inputs of the manager's calls
MountPaths == {<<"/">>, <<"/", "a">>, <<"/", "b">>, <<"/", "a", "/", "b">>}
\* paths of a volume, and the entries of a root directory below a mount point
VfsPaths == Paths \cup {mp \o <<"/", n>> : mp \in MountPaths \ {<<"/">>}, n \in Names}
VfsContents == {Content(n) : n \in 0 .. MaxVfsLen}

\* the manager's calls recorded in `last`: a mount refused for its mount point,
\* a move or copy refused for its two volumes
MountLayerError(err) == err \in {"AlreadyMounted", "CrossVolumeUnsupported"}

\* mount or unmount returns or throws
TableReturn(op, r) ==
  /\ mounts' = r.mounts
  /\ last' = IF MountLayerError(r.err)
               THEN [op |-> op, err |-> r.err, freeBefore |-> getFreeBlockCount(Vol)]
               ELSE last
  /\ UNCHANGED <<freeBlockMap, blocks, heap, root, disks>>

\* a call forwarded to a volume returns or throws
VfsReturn(op, r) ==
  LET c == [v \in VolIds |-> IF r.vols[v] = Volumes[v] THEN r.vols[v] ELSE Collect(r.vols[v])]
  IN /\ \A v \in VolIds : Len(Reachable(r.vols[v])) <= MaxVfsNodes
     /\ freeBlockMap' = c[MainVol].freeBlockMap
     /\ blocks' = c[MainVol].blocks
     /\ heap' = c[MainVol].heap
     /\ root' = c[MainVol].root
     /\ disks' = [d \in DiskIds |-> c[d]]
     /\ last' = IF MountLayerError(r.err)
                  THEN [op |-> op, err |-> r.err, freeBefore |-> getFreeBlockCount(Vol)]
                  ELSE last
     /\ UNCHANGED mounts

Mount == \E v \in DiskIds, mp \in MountPaths : TableReturn("mount", mount(mounts, v, mp))
Unmount == \E mp \in MountPaths : TableReturn("unmount", unmount(mounts, mp))
VfsCreateDirectory ==
  \E p \in VfsPaths : VfsReturn("createDirectory", VFS_createDirectory(Volumes, mounts, p))
VfsCreateFile ==
  \E p \in VfsPaths, c \in VfsContents :
    VfsReturn("createFile", VFS_createFile(Volumes, mounts, p, c))
VfsWriteFile ==
  \E p \in VfsPaths, c \in VfsContents :
    VfsReturn("writeFile", VFS_writeFile(Volumes, mounts, p, c))
VfsDelete == \E p \in VfsPaths : VfsReturn("delete", VFS_delete(Volumes, mounts, p))
VfsMove == \E s \in VfsPaths, d \in VfsPaths : VfsReturn("move", VFS_move(Volumes, mounts, s, d))
VfsCopy == \E s \in VfsPaths, d \in VfsPaths : VfsReturn("copy", VFS_copy(Volumes, mounts, s, d))

NextVFS ==
  \/ Mount
  \/ Unmount
  \/ VfsCreateDirectory
  \/ VfsCreateFile
  \/ VfsWriteFile
  \/ VfsDelete
  \/ VfsMove
  \/ VfsCopy

SpecVFS == Init /\ [][NextVFS]_vars

\* ---------------------------------------------------------------- copies on a larger volume
\* a volume of CopyBlocks blocks, filled by createDirectory and createFile and
\* emptied by deleteNode, on which copy is called
InitCopy ==
  /\ freeBlockMap = NewVolumeOf(CopyBlocks).freeBlockMap
  /\ blocks = NewVolumeOf(CopyBlocks).blocks
  /\ heap = NewVolumeOf(CopyBlocks).heap
  /\ root = NewVolumeOf(CopyBlocks).root
  /\ last = [op |-> "new", err |-> "ok", freeBefore |-> CopyBlocks]
  /\ mounts = NewManager
  /\ disks = [d \in DiskIds |-> NewVolume]

\* the call returns or throws, as Return, on a volume of up to MaxCopyNodes nodes
ReturnCopy(op, r) ==
  LET c == IF r.fs = Vol THEN r.fs ELSE Collect(r.fs)
  IN /\ Len(Reachable(r.fs)) <= MaxCopyNodes
     /\ freeBlockMap' = c.freeBlockMap
     /\ blocks' = c.blocks
     /\ heap' = c.heap
     /\ root' = c.root
     /\ last' = IF Recorded(r.err)
                  THEN [op |-> op, err |-> r.err, freeBefore |-> getFreeBlockCount(Vol)]
                  ELSE last
     /\ UNCHANGED <<mounts, disks>>

CopyCreateDirectory == \E p \in Paths : ReturnCopy("createDirectory", createDirectory(Vol, p))
CopyCreateFile ==
  \E p \in Paths, c \in Contents : ReturnCopy("createFile", createFile(Vol, p, c))
CopyDeleteNode == \E p \in Paths : ReturnCopy("deleteNode", deleteNode(Vol, p))
CopyCopy == \E s \in Paths, d \in Paths : ReturnCopy("copy", copy(Vol, s, d))

NextCopy ==
  \/ CopyCreateDirectory
  \/ CopyCreateFile
  \/ CopyDeleteNode
  \/ CopyCopy

SpecCopy == InitCopy /\ [][NextCopy]_vars

TypeOK ==
  /\ freeBlockMap \in [blockIds(Vol) -> {0, 1}]
  /\ root \in 1 .. Len(heap)
  /\ heap[root].type = "directory"

\* ---------------------------------------------------------------- vocabulary of the claims
Range(q) == {q[i] : i \in 1 .. Len(q)}
NodesOf(fs) == Range(Reachable(fs))
FilesOf(fs) == {n \in NodesOf(fs) : fs.heap[n].type = "file"}
FilesUnder(fs, n) == {f \in Range(preorderList(fs.heap, <<n>>, Len(fs.heap))) : fs.heap[f].type = "file"}
contentOf(fs, n) == joinBlocks(fs, fs.heap[n].blocks)
CeilDiv(a, b) == (a + b - 1) \div b
IsFileAt(fs, p) == getNode(fs, p).err = "ok" /\ fs.heap[getNode(fs, p).id].type = "file"
IsDirAt(fs, p) == getNode(fs, p).err = "ok" /\ fs.heap[getNode(fs, p).id].type = "directory"
\* the final segment of a path
baseName(p) == LET parts == splitParts(p) IN parts[Len(parts)]

\* the subtree at n1 in fs1 and the subtree at n2 in fs2 have the same shape:
\* same kinds, same child names at every level, same file contents
RECURSIVE SameTree(_, _, _, _)
SameTree(fs1, n1, fs2, n2) ==
  LET a == fs1.heap[n1]
      b == fs2.heap[n2]
  IN /\ a.type = b.type
     /\ a.type = "file" => contentOf(fs1, n1) = contentOf(fs2, n2)
     /\ a.type = "directory" =>
          /\ {e.name : e \in Range(a.children)} = {e.name : e \in Range(b.children)}
          /\ \A e \in Range(a.children) :
               /\ fs1.heap[e.id].name = e.name
               /\ fs2.heap[Lookup(b.children, e.name)].name = e.name
               /\ SameTree(fs1, e.id, fs2, Lookup(b.children, e.name))

\* ---------------------------------------------------------------- C1
\* C1: in every reachable state every block index in a file's block list is
\* marked occupied, and no block index appears in the block lists of two files
\* reachable from the root, nor twice in one file.
C1_BlocksOwnedOnce ==
  \A f \in FilesOf(Vol) :
    LET bl == heap[f].blocks
    IN /\ \A i \in 1 .. Len(bl) : freeBlockMap[bl[i]] = 1
       /\ \A i, j \in 1 .. Len(bl) : i # j => bl[i] # bl[j]
       /\ \A g \in FilesOf(Vol) : g # f => Range(bl) \cap Range(heap[g].blocks) = {}

\* ---------------------------------------------------------------- C2
\* C2: in every reachable state every file's size equals the length of the
\* content readFile returns for it, and its block list has
\* ceil(size / blockSize) entries, also after a failed writeFile or appendFile.
C2_SizeMatchesContent ==
  \A f \in FilesOf(Vol) :
    /\ heap[f].size = Len(contentOf(Vol, f))
    /\ Len(heap[f].blocks) = CeilDiv(heap[f].size, BlockSize)

\* ---------------------------------------------------------------- C3
\* C3: when writeFile(p, c) on an existing file fails with DiskFull, the file
\* is left with an empty block list, size 0, and readFile(p) returns "".
C3_FailedWriteEmptiesFile ==
  \A p \in Paths, c \in Contents :
    LET r == writeFile(Vol, p, c)
    IN r.err = "DiskFull" =>
         /\ r.fs.heap[getNode(r.fs, p).id].blocks = <<>>
         /\ r.fs.heap[getNode(r.fs, p).id].size = 0
         /\ readFile(r.fs, p) = [err |-> "ok", val |-> <<>>]

\* ---------------------------------------------------------------- C4
\* C4: in every reachable state, for every path p of an existing file and every
\* content c, if writeFile(p, c) succeeds then readFile(p) returns exactly c.
C4_WriteThenRead ==
  \A p \in Paths, c \in Contents :
    LET r == writeFile(Vol, p, c)
    IN r.err = "ok" => readFile(r.fs, p) = [err |-> "ok", val |-> c]

\* a writeFile has just succeeded and left a file spanning several blocks
C4_Witness ==
  /\ last.op = "writeFile"
  /\ last.err = "ok"
  /\ \E f \in FilesOf(Vol) : Len(heap[f].blocks) >= 2 /\ contentOf(Vol, f) = Content(2)

\* ---------------------------------------------------------------- C5
\* C5: when createFile(p, content) fails with DiskFull, every block the call
\* allocated is free again and no node is inserted: the occupancy table and
\* getFreeBlockCount() are as before the call and p does not resolve.
C5_CreateRollsBack ==
  \A p \in Paths, c \in Contents :
    LET r == createFile(Vol, p, c)
    IN r.err = "DiskFull" =>
         /\ r.fs.freeBlockMap = freeBlockMap
         /\ getFreeBlockCount(r.fs) = getFreeBlockCount(Vol)
         /\ ~exists(r.fs, p)
         /\ r.fs.heap = heap
         /\ r.fs.root = root

\* a createFile has just failed with DiskFull after allocating a block: a
\* block was free when it began, and the same number is free now
C5_Witness ==
  /\ last.op = "createFile"
  /\ last.err = "DiskFull"
  /\ last.freeBefore >= 1
  /\ getFreeBlockCount(Vol) = last.freeBefore

\* ---------------------------------------------------------------- C6
\* C6: after a successful copy(src, dst) of a directory the copy is a deep
\* structural clone of the source as it was: the same child names at every
\* level, each child under its own name, every file with the same content.
C6_CopyIsDeepClone ==
  \A s \in Paths, d \in Paths :
    LET r == copy(Vol, s, d)
    IN (r.err = "ok" /\ IsDirAt(Vol, s)) => SameTree(Vol, getNode(Vol, s).id, r.fs, r.ret)

\* ---------------------------------------------------------------- C7
\* C7: after a successful move(src, dst), src no longer resolves and the moved
\* node, its subtree and file contents unchanged, resolves at the destination:
\* inside dst under its own name when dst was an existing directory, otherwise
\* at dst under dst's final segment; also when dst lies inside src's subtree.
C7_MoveRelocates ==
  \A s \in Paths, d \in Paths :
    LET r == move(Vol, s, d)
        n == getNode(Vol, s).id
        target == IF IsDirAt(Vol, d) THEN d \o <<"/", heap[n].name>> ELSE d
    IN r.err = "ok" =>
         /\ ~exists(r.fs, s)
         /\ getNode(r.fs, target) = [err |-> "ok", id |-> n]
         /\ r.fs.heap[n].name = baseName(target)
         /\ r.fs.heap[n].type = heap[n].type
         /\ r.fs.heap[n].type = "file" => contentOf(r.fs, n) = contentOf(Vol, n)
         /\ r.fs.heap[n].type = "directory" => SameTree(Vol, n, r.fs, n)

\* ---------------------------------------------------------------- C8
\* C8: move(src, dst) and copy(src, dst) whose dst resolves to an existing file
\* fail with InvalidDestination and leave the tree and the block store unchanged.
C8_FileDestinationRejected ==
  \A s \in Paths, d \in Paths :
    (exists(Vol, s) /\ s # <<"/">> /\ IsFileAt(Vol, d)) =>
      /\ move(Vol, s, d).err = "InvalidDestination"
      /\ move(Vol, s, d).fs = Vol
      /\ copy(Vol, s, d).err = "InvalidDestination"
      /\ copy(Vol, s, d).fs = Vol

\* ---------------------------------------------------------------- C9
\* C9: after a successful deleteNode(p), no block index that a file under p
\* referenced before the call is still marked occupied, and p no longer resolves.
C9_DeleteFreesBlocks ==
  \A p \in Paths :
    LET r == deleteNode(Vol, p)
    IN r.err = "ok" =>
         /\ \A f \in FilesUnder(Vol, getNode(Vol, p).id) :
              \A b \in Range(heap[f].blocks) : r.fs.freeBlockMap[b] = 0
         /\ ~exists(r.fs, p)

\* a deleteNode has just succeeded and freed blocks
C9_Witness ==
  /\ last.op = "deleteNode"
  /\ last.err = "ok"
  /\ getFreeBlockCount(Vol) > last.freeBefore

\* ---------------------------------------------------------------- C10
\* C10: after a successful copy(src, dst) the copy's files use blocks disjoint
\* from the source's, so a later writeFile, appendFile or deleteNode on a path
\* inside the copy leaves every file of the original subtree with the same
\* block list and the same content.
BlocksOfFiles(fs, files) == UNION {Range(fs.heap[f].blocks) : f \in files}
LaterOps(fs, q) ==
  {writeFile(fs, q, c) : c \in Contents} \cup {appendFile(fs, q, c) : c \in Extras}
    \cup {deleteNode(fs, q)}

C10_CopyIndependent ==
  \A s \in Paths, d \in Paths :
    LET r == copy(Vol, s, d)
        orig == FilesUnder(Vol, getNode(Vol, s).id)
        inside == Range(preorderList(r.fs.heap, <<r.ret>>, Len(r.fs.heap)))
    IN r.err = "ok" =>
         /\ BlocksOfFiles(r.fs, FilesUnder(r.fs, r.ret)) \cap BlocksOfFiles(Vol, orig) = {}
         /\ \A q \in Paths :
              (exists(r.fs, q) /\ getNode(r.fs, q).id \in inside) =>
                \A r2 \in LaterOps(r.fs, q) : \A f \in orig :
                  /\ r2.fs.heap[f].blocks = r.fs.heap[f].blocks
                  /\ contentOf(r2.fs, f) = contentOf(r.fs, f)

\* ---------------------------------------------------------------- C15
\* C15: in every reachable state every block whose occupancy flag is 0 holds
\* the empty chunk "", also after format() without zeroBlocks.
C15_FreeBlocksEmpty ==
  \A b \in BlockIds : freeBlockMap[b] = 0 => blocks[b] = <<>>

\* ---------------------------------------------------------------- C17
\* C17: after every operation, successful or failed, the occupancy table has
\* an entry for each of the totalBlocks blocks, each entry is 0 or 1, and the
\* number of entries equal to 1 plus getFreeBlockCount() is totalBlocks.
C17_Conservation ==
  /\ DOMAIN freeBlockMap = BlockIds
  /\ \A b \in BlockIds : freeBlockMap[b] \in {0, 1}
  /\ Cardinality({b \in BlockIds : freeBlockMap[b] = 1}) + getFreeBlockCount(Vol) = TotalBlocks

\* a call has just failed with DiskFull on a volume with occupied blocks
C17_Witness ==
  /\ last.err = "DiskFull"
  /\ \E b \in BlockIds : freeBlockMap[b] = 1

\* ---------------------------------------------------------------- C18
\* C18: in every reachable state the root is a directory named "/" that the
\* path "/" resolves to, and deleteNode("/"), rename("/", n) and move("/", d)
\* fail with InvalidPath and leave the tree and the block store unchanged.
C18_RootStays ==
  /\ heap[root].type = "directory"
  /\ heap[root].name = "/"
  /\ getNode(Vol, <<"/">>) = [err |-> "ok", id |-> root]
  /\ deleteNode(Vol, <<"/">>) = Fail(Vol, "InvalidPath")
  /\ \A n \in Names : rename(Vol, <<"/">>, n) = Fail(Vol, "InvalidPath")
  /\ \A d \in Paths : move(Vol, <<"/">>, d) = Fail(Vol, "InvalidPath")

\* a deleteNode, rename or move has just succeeded below a root that still
\* has an entry
C18_Witness ==
  /\ last.op \in {"deleteNode", "rename", "move"}
  /\ last.err = "ok"
  /\ heap[root].children # <<>>

\* ---------------------------------------------------------------- C19
FreeSet(fs) == {b \in BlockIds : fs.freeBlockMap[b] = 0}
LowestFree(fs, k) == {b \in FreeSet(fs) : Cardinality({j \in FreeSet(fs) : j < b}) < k}
Increasing(bl) == \A i, j \in 1 .. Len(bl) : i < j => bl[i] < bl[j]
FirstFitList(bl, fs, content) ==
  /\ Len(bl) = CeilDiv(Len(content), BlockSize)
  /\ Increasing(bl)
  /\ Range(bl) = LowestFree(fs, Len(bl))

\* C19: allocateBlock returns the smallest index whose flag is 0 and marks it
\* occupied, or no block when every flag is 1; the block list of a file just
\* created or successfully written is strictly increasing and consists of the
\* k lowest indices free when the allocation began, k the number of chunks.
C19_FirstFit ==
  /\ LET a == allocateBlock(Vol)
     IN IF FreeSet(Vol) = {}
        THEN a.idx = NoBlock /\ a.fs = Vol
        ELSE /\ a.idx \in FreeSet(Vol)
             /\ \A b \in FreeSet(Vol) : a.idx <= b
             /\ a.fs.freeBlockMap = [freeBlockMap EXCEPT ![a.idx] = 1]
  /\ \A p \in Paths, c \in Contents :
       LET r == createFile(Vol, p, c)
       IN r.err = "ok" => FirstFitList(r.fs.heap[getNode(r.fs, p).id].blocks, Vol, c)
  /\ \A p \in Paths, c \in Contents :
       LET r == writeFile(Vol, p, c)
           old == heap[getNode(Vol, p).id].blocks
       IN r.err = "ok" =>
            FirstFitList(r.fs.heap[getNode(r.fs, p).id].blocks, freeBlocks(Vol, old), c)

\* a createFile has just succeeded and a file holds the two lowest blocks
C19_Witness ==
  /\ last.op = "createFile"
  /\ last.err = "ok"
  /\ \E f \in FilesOf(Vol) : heap[f].blocks = <<0, 1>>

\* ---------------------------------------------------------------- C20
\* C20: in every reachable state every block marked occupied is in the block
\* list of some file reachable from the root.
C20_NoLeak ==
  \A b \in BlockIds :
    freeBlockMap[b] = 1 => \E f \in FilesOf(Vol) : b \in Range(heap[f].blocks)

\* ---------------------------------------------------------------- C11
\* unified paths resolve is asked for: every path of up to MaxDepth + 1
\* segments, and "/ab", which has the mount path "/a" as a bare prefix
UnifiedPaths == {str(q) : q \in PartsUpTo(MaxDepth + 1)} \cup {<<"/", "a", "b">>}
\* m equals p, or is a prefix of p followed by "/"
Covers(m, p) ==
  \/ p = m
  \/ Len(p) > Len(m) /\ SubSeq(p, 1, Len(m)) = m /\ p[Len(m) + 1] = "/"
\* p with the mount path m stripped, "/" when nothing remains
Stripped(p, m) == IF Len(p) = Len(m) THEN <<"/">> ELSE SubSeq(p, Len(m) + 1, Len(p))

\* C11: for every mount table reached and every unified path p, resolve(p)
\* returns the volume of the longest mount path other than "/" that equals p
\* or is a prefix of p followed by "/", with p stripped of that mount path as
\* inner path; when there is none it returns the volume mounted at "/" with
\* inner path p.
C11_LongestPrefix ==
  \A p \in UnifiedPaths :
    LET r == resolve(mounts, p)
        cands == {i \in 1 .. Len(mounts) :
                    mounts[i].mountPoint # <<"/">> /\ Covers(mounts[i].mountPoint, p)}
    IN /\ r.err = "ok"
       /\ IF cands = {}
          THEN /\ r.mountPoint = <<"/">>
               /\ r.innerPath = p
               /\ \E i \in 1 .. Len(mounts) :
                    mounts[i].mountPoint = <<"/">> /\ mounts[i].fs = r.fs
          ELSE \E i \in cands :
                 /\ \A j \in cands : Len(mounts[j].mountPoint) <= Len(mounts[i].mountPoint)
                 /\ r.fs = mounts[i].fs
                 /\ r.mountPoint = mounts[i].mountPoint
                 /\ r.innerPath = Stripped(p, mounts[i].mountPoint)

\* the table holds a mount path and a longer one below it, besides "/"
C11_Witness ==
  /\ \E i \in 1 .. Len(mounts) : mounts[i].mountPoint = <<"/", "a">>
  /\ \E i \in 1 .. Len(mounts) : mounts[i].mountPoint = <<"/", "a", "/", "b">>
  /\ resolve(mounts, <<"/", "a", "/", "b", "/", "a">>).mountPoint = <<"/", "a", "/", "b">>

\* ---------------------------------------------------------------- C12
\* C12: after any sequence of mount and unmount calls the mount table has
\* pairwise distinct mount paths, exactly one entry at "/", and is ordered by
\* mount-path length descending; mount on a path already present, unmount of
\* an absent path and unmount("/") fail with AlreadyMounted, NotFound and
\* CannotUnmountRoot and leave the table unchanged.
C12_MountTable ==
  /\ \A i, j \in 1 .. Len(mounts) : i # j => mounts[i].mountPoint # mounts[j].mountPoint
  /\ Cardinality({i \in 1 .. Len(mounts) : mounts[i].mountPoint = <<"/">>}) = 1
  /\ \A i, j \in 1 .. Len(mounts) :
       i < j => Len(mounts[i].mountPoint) >= Len(mounts[j].mountPoint)
  /\ \A mp \in MountPaths :
       IF \E i \in 1 .. Len(mounts) : mounts[i].mountPoint = mp
       THEN \A v \in VolIds :
              mount(mounts, v, mp) = [mounts |-> mounts, err |-> "AlreadyMounted"]
       ELSE unmount(mounts, mp) = [mounts |-> mounts, err |-> "NotFound"]
  /\ unmount(mounts, <<"/">>) = [mounts |-> mounts, err |-> "CannotUnmountRoot"]

\* a mount has just been refused on a table of three entries
C12_Witness ==
  /\ last.op = "mount"
  /\ last.err = "AlreadyMounted"
  /\ Len(mounts) >= 3

\* ---------------------------------------------------------------- C13
\* C13: a manager move or copy whose two paths resolve to different volumes
\* fails with CrossVolumeUnsupported and changes no volume.
C13_CrossVolumeRefused ==
  \A s \in VfsPaths, d \in VfsPaths :
    resolve(mounts, s).fs # resolve(mounts, d).fs =>
      /\ VFS_move(Volumes, mounts, s, d) = [vols |-> Volumes, err |-> "CrossVolumeUnsupported"]
      /\ VFS_copy(Volumes, mounts, s, d) = [vols |-> Volumes, err |-> "CrossVolumeUnsupported"]

\* a move between two volumes has just been refused, and both hold an entry
C13_Witness ==
  /\ last.op = "move"
  /\ last.err = "CrossVolumeUnsupported"
  /\ \A v \in VolIds : Volumes[v].heap[Volumes[v].root].children # <<>>

\* ---------------------------------------------------------------- C14
\* the outcomes of one call of any operation on the volume
AnyCall(fs) ==
  {createDirectory(fs, p) : p \in Paths}
    \cup {createFile(fs, p, c) : p \in Paths, c \in Contents}
    \cup {writeFile(fs, p, c) : p \in Paths, c \in Contents}
    \cup {appendFile(fs, p, c) : p \in Paths, c \in Extras}
    \cup {deleteNode(fs, p) : p \in Paths}
    \cup {rename(fs, p, n) : p \in Paths, n \in Names}
    \cup {[fs |-> move(fs, p, q).fs, err |-> move(fs, p, q).err, ret |-> NoId] : p \in Paths, q \in Paths}
    \cup {[fs |-> copy(fs, p, q).fs, err |-> copy(fs, p, q).err, ret |-> NoId] : p \in Paths, q \in Paths}
    \cup {format(fs, z) : z \in BOOLEAN}

\* C14: a snapshot taken by export() is not changed by an operation performed
\* on the volume afterwards: importDump(snapshot) after the operation restores
\* the tree, the occupancy table and the block chunks of the time of export.
C14_SnapshotRestores ==
  \A r \in AnyCall(Vol) :
    Collect(importDump(r.fs, export(Vol))) = Collect(Vol)

\* ---------------------------------------------------------------- C16
\* C16: the empty path is normalized to "/": normalizePath, getNode and the
\* operations of the volume behave on "" as on "/", and resolve("") returns
\* the root volume with inner path "/".
C16_EmptyPathIsRoot ==
  /\ normalizePath(EmptyString) = [err |-> "ok", path |-> <<"/">>]
  /\ getNode(Vol, EmptyString) = getNode(Vol, <<"/">>)
  /\ createDirectory(Vol, EmptyString) = createDirectory(Vol, <<"/">>)
  /\ deleteNode(Vol, EmptyString) = deleteNode(Vol, <<"/">>)
  /\ copy(Vol, <<"/">>, EmptyString).err = copy(Vol, <<"/">>, <<"/">>).err
  /\ resolve(mounts, EmptyString) = resolve(mounts, <<"/">>)

\* ---------------------------------------------------------------- C21
\* the entries, in any directory object of the heap, that lead to n
ParentEntries(fs, n) ==
  {<<d, i>> \in (1 .. Len(fs.heap)) \X (1 .. MaxNodes + 1) :
     i <= Len(fs.heap[d].children) /\ fs.heap[d].children[i].id = n}
\* the objects below n
Below(fs, n) ==
  LET ch == fs.heap[n].children
  IN Range(preorderList(fs.heap, [i \in 1 .. Len(ch) |-> ch[i].id], Len(fs.heap) + 1))

\* C21: the nodes of a volume form a tree rooted at "/": no directory is below
\* itself and every node other than the root has exactly one parent entry;
\* after a successful move, also one whose destination lies inside the moved
\* directory, this still holds of every object and every node that was
\* reachable from the root is still reachable.
C21_TreeAfterMove ==
  /\ \A n \in NodesOf(Vol) :
       /\ n \notin Below(Vol, n)
       /\ Cardinality(ParentEntries(Vol, n)) = IF n = root THEN 0 ELSE 1
  /\ \A s \in Paths, d \in Paths :
       LET r == move(Vol, s, d)
       IN r.err = "ok" =>
            /\ NodesOf(Vol) \subseteq NodesOf(r.fs)
            /\ \A n \in 1 .. Len(r.fs.heap) : n \notin Below(r.fs, n)

\* ---------------------------------------------------------------- C22
\* C22: in every reachable state, a writeFile, appendFile or deleteNode on a
\* file p, whatever its outcome, leaves readFile(q) as it was for every other
\* file q of the volume.
C22_OtherFilesKept ==
  \A p \in Paths, q \in Paths :
    (IsFileAt(Vol, p) /\ IsFileAt(Vol, q) /\ getNode(Vol, p).id # getNode(Vol, q).id) =>
      \A r \in LaterOps(Vol, p) : readFile(r.fs, q) = readFile(Vol, q)

\* ---------------------------------------------------------------- C24
\* the outcomes of the wrappers that change a volume, called on path p
Forwarded(p) ==
  {VFS_createDirectory(Volumes, mounts, p), VFS_delete(Volumes, mounts, p)}
    \cup {VFS_createFile(Volumes, mounts, p, c) : c \in VfsContents}
    \cup {VFS_writeFile(Volumes, mounts, p, c) : c \in VfsContents}
\* the mount paths of the table other than m that cover p
OtherCover(m, p) ==
  {i \in 1 .. Len(mounts) :
     /\ mounts[i].mountPoint \notin {m, <<"/">>}
     /\ Covers(mounts[i].mountPoint, p)}

\* C24: a convenience wrapper called on a path changes no volume other than
\* the one resolve selects for the path, so what the root volume holds under
\* a mount path stays as it is while the mount exists; once the mount path is
\* unmounted, a path it alone covered resolves on the root volume again.
C24_OnlyResolvedVolume ==
  /\ \A p \in VfsPaths :
       \A o \in Forwarded(p) :
         \A v \in VolIds \ {resolve(mounts, p).fs} : o.vols[v] = Volumes[v]
  /\ \A i \in 1 .. Len(mounts) :
       LET m == mounts[i].mountPoint
           u == unmount(mounts, m)
       IN m # <<"/">> =>
            /\ u.err = "ok"
            /\ \A p \in VfsPaths :
                 (Covers(m, p) /\ OtherCover(m, p) = {}) =>
                   resolve(u.mounts, p) =
                     [err |-> "ok", fs |-> MainVol, innerPath |-> p, mountPoint |-> <<"/">>]

\* a disk is mounted at "/a" over an entry "a" of the root volume, and the
\* disk holds an entry created through the mount
C24_Witness ==
  /\ resolve(mounts, <<"/", "a">>).fs # MainVol
  /\ exists(Vol, <<"/", "a">>)
  /\ \E d \in DiskIds : disks[d].heap[disks[d].root].children # <<>>

\* ---------------------------------------------------------------- C23
\* C23: when copy(src, dst) of a directory holding several files fails with
\* DiskFull, the blocks allocated for the clones made earlier in the call are
\* free again: the occupancy table, getFreeBlockCount() and the tree are as
\* before the call.
C23_CopyFailureLocal ==
  \A s \in Paths, d \in Paths :
    LET r == copy(Vol, s, d)
    IN (r.err = "DiskFull" /\ IsDirAt(Vol, s)
          /\ Cardinality(FilesUnder(Vol, getNode(Vol, s).id)) >= 2) =>
         /\ r.fs.freeBlockMap = freeBlockMap
         /\ getFreeBlockCount(r.fs) = getFreeBlockCount(Vol)
         /\ Collect(r.fs).heap = heap
====
